---- MODULE Spec2Model ----
(***************************************************************************)
(* Model of the two heuristic extraction engines of cpp-testing/scripts:   *)
(*   find_key_functions.py : classify_function, extract_functions          *)
(*   analyze_project.py    : parse_cmake, scan_headers, scan_sources,      *)
(*                           analyze_project                               *)
(* Text is a sequence of one-character strings.  Python's `re` patterns    *)
(* are transcribed as pattern trees and matched by a backtracking matcher  *)
(* that yields its successes in Python's priority order.                   *)
(***************************************************************************)
EXTENDS Integers, Sequences, FiniteSets, TLC

VARIABLES
    \* classify_function
    name,            \* the argument
    cpc,             \* "call" | "returned"
    cresult,         \* the returned (priority, category)
    \* extract_functions
    content,         \* None (read_text raises) or Some(the header's text)
    epc,             \* "read" | "pass1" | "pass2" | "done"
    lines,           \* content.split('\n'), line 110
    lineNo,          \* number of lines the loop of line 115 has processed
    current_class,   \* None or Some(type name)
    brace_depth,
    matches,         \* what FUNCTION_PATTERN.finditer(content) yields, line 129
    handed,          \* number of those matches the loop has been handed
    functions,       \* the list built at line 156
    \* analyze_project and the functions it calls
    fs,              \* the file system the run reads (never written)
    apc,             \* position in analyze_project / scan_headers
    include_dir,     \* scan_headers' argument: None or Some(directory name)
    cmake_info,      \* parse_cmake's dict
    info,            \* the ProjectInfo
    modules,         \* scan_headers' dict, in insertion order
    pending,         \* headers rglob has not yet yielded
    visited,         \* headers rglob has yielded, in order
    sources,         \* scan_sources' list
    raised           \* None or Some(exception name) once a call has raised

cvars == <<name, cpc, cresult>>
evars == <<content, epc, lines, lineNo, current_class, brace_depth, matches, handed,
          functions>>
avars == <<fs, apc, include_dir, cmake_info, info, modules, pending, visited, sources, raised>>
vars == <<name, cpc, cresult,
          content, epc, lines, lineNo, current_class, brace_depth, matches, handed,
          functions,
          fs, apc, include_dir, cmake_info, info, modules, pending, visited, sources, raised>>

-----------------------------------------------------------------------------
(* Python values *)

None == << >>
Some(x) == <<x>>
IsNone(o) == o = << >>
Val(o) == o[1]

Min(S) == CHOOSE x \in S : \A y \in S : x <= y

-----------------------------------------------------------------------------
(* Characters *)

LowerLetters ==
    {"a","b","c","d","e","f","g","h","i","j","k","l","m",
     "n","o","p","q","r","s","t","u","v","w","x","y","z"}
UpperLetters ==
    {"A","B","C","D","E","F","G","H","I","J","K","L","M",
     "N","O","P","Q","R","S","T","U","V","W","X","Y","Z"}
Digits == {"0","1","2","3","4","5","6","7","8","9"}

\* \w
WordChars == LowerLetters \cup UpperLetters \cup Digits \cup {"_"}
\* \s
SpaceChars == {" ", "\n", "\t", "\r"}

UpperSeq ==
    <<"A","B","C","D","E","F","G","H","I","J","K","L","M",
      "N","O","P","Q","R","S","T","U","V","W","X","Y","Z">>
LowerSeq ==
    <<"a","b","c","d","e","f","g","h","i","j","k","l","m",
      "n","o","p","q","r","s","t","u","v","w","x","y","z">>

\* str.lower() on one character
LowerChar(c) ==
    IF c \in UpperLetters
    THEN LowerSeq[CHOOSE i \in 1..26 : UpperSeq[i] = c]
    ELSE c

\* str.lower()
Lower(s) == [i \in 1..Len(s) |-> LowerChar(s[i])]

\* s[a:b] with 1-based a and exclusive 1-based b
Slice(s, a, b) == SubSeq(s, a, b - 1)

\* str.startswith
StartsWith(s, prefix) ==
    /\ Len(prefix) <= Len(s)
    /\ SubSeq(s, 1, Len(prefix)) = prefix

\* str.strip()
RECURSIVE LStrip(_)
LStrip(s) ==
    IF s # << >> /\ Head(s) \in SpaceChars THEN LStrip(Tail(s)) ELSE s
RECURSIVE RStrip(_)
RStrip(s) ==
    IF s # << >> /\ s[Len(s)] \in SpaceChars
    THEN RStrip(SubSeq(s, 1, Len(s) - 1))
    ELSE s
Strip(s) == RStrip(LStrip(s))

\* str.count of a one-character string
Count(s, c) == Cardinality({i \in 1..Len(s) : s[i] = c})

\* `keyword in s`: substring test
Contains(s, kw) ==
    \E i \in 1..(Len(s) - Len(kw) + 1) : SubSeq(s, i, i + Len(kw) - 1) = kw


-----------------------------------------------------------------------------
(* Python's re: pattern trees and a backtracking matcher.                   *)
(* A thread is a position p (the index of the next character to read) and  *)
(* the groups captured so far, g[k] = <<start, end>> (end exclusive).      *)
(* Match(node, s, ic, th) is the sequence of threads `node` can end in     *)
(* when started in th, in the order a backtracking matcher tries them:     *)
(* its head is the result Python reports.                                  *)

In(S)       == [t |-> "in", set |-> S]          \* [...] , \w , \s
NotIn(S)    == [t |-> "notin", set |-> S]       \* [^...]
Lit(str)    == [t |-> "lit", str |-> str]       \* literal text
Cat(items)  == [t |-> "cat", items |-> items]   \* x y z
Alt(items)  == [t |-> "alt", items |-> items]   \* x | y | z
Star(x)     == [t |-> "star", x |-> x]          \* x*   (greedy)
LazyStar(x) == [t |-> "lazystar", x |-> x]      \* x*?
Grp(k, x)   == [t |-> "grp", k |-> k, x |-> x]  \* ( x ), group number k
Empty       == Cat(<< >>)
Opt(x)      == Alt(<<x, Empty>>)                \* x?   (greedy)
Plus(x)     == Cat(<<x, Star(x)>>)              \* x+   (greedy)
LazyPlus(x) == Cat(<<x, LazyStar(x)>>)          \* x+?

NoGroup == <<0, 0>>

SameChar(a, b, ic) == IF ic THEN LowerChar(a) = LowerChar(b) ELSE a = b

LitAt(s, p, str, ic) ==
    /\ p + Len(str) - 1 <= Len(s)
    /\ \A i \in 1..Len(str) : SameChar(s[p + i - 1], str[i], ic)

\* how many characters from position p on satisfy the one-character node x
RunLength(x, s, p) ==
    LET stops == {i \in p..Len(s) : (s[i] \in x.set) = (x.t = "notin")}
    IN IF stops = {} THEN Len(s) + 1 - p ELSE Min(stops) - p

RECURSIVE Match(_, _, _, _)
RECURSIVE MatchAll(_, _, _, _)
RECURSIVE MatchCat(_, _, _, _)
RECURSIVE MatchAlt(_, _, _, _)

\* every thread of ths continued through node, order kept
MatchAll(node, s, ic, ths) ==
    IF ths = << >> THEN << >>
    ELSE IF Len(ths) = 1 THEN Match(node, s, ic, ths[1])
    ELSE LET half == Len(ths) \div 2
         IN MatchAll(node, s, ic, SubSeq(ths, 1, half))
            \o MatchAll(node, s, ic, SubSeq(ths, half + 1, Len(ths)))

MatchCat(items, s, ic, ths) ==
    IF items = << >> \/ ths = << >> THEN ths
    ELSE MatchCat(Tail(items), s, ic, MatchAll(Head(items), s, ic, ths))

MatchAlt(items, s, ic, th) ==
    IF items = << >> THEN << >>
    ELSE Match(Head(items), s, ic, th) \o MatchAlt(Tail(items), s, ic, th)

Match(node, s, ic, th) ==
    CASE node.t = "in" ->
            IF th.p <= Len(s) /\ s[th.p] \in node.set
            THEN <<[th EXCEPT !.p = @ + 1]>> ELSE << >>
      [] node.t = "notin" ->
            IF th.p <= Len(s) /\ s[th.p] \notin node.set
            THEN <<[th EXCEPT !.p = @ + 1]>> ELSE << >>
      [] node.t = "lit" ->
            IF LitAt(s, th.p, node.str, ic)
            THEN <<[th EXCEPT !.p = @ + Len(node.str)]>> ELSE << >>
      [] node.t = "cat" -> MatchCat(node.items, s, ic, <<th>>)
      [] node.t = "alt" -> MatchAlt(node.items, s, ic, th)
      [] node.t = "star" ->
            \* longest first
            IF node.x.t \in {"in", "notin"}
            THEN LET n == RunLength(node.x, s, th.p)
                 IN [i \in 1..(n + 1) |-> [th EXCEPT !.p = @ + n + 1 - i]]
            ELSE MatchAll(node, s, ic, Match(node.x, s, ic, th)) \o <<th>>
      [] node.t = "lazystar" ->
            \* shortest first
            IF node.x.t \in {"in", "notin"}
            THEN LET n == RunLength(node.x, s, th.p)
                 IN [i \in 1..(n + 1) |-> [th EXCEPT !.p = @ + i - 1]]
            ELSE <<th>> \o MatchAll(node, s, ic, Match(node.x, s, ic, th))
      [] node.t = "grp" ->
            LET ends == Match(node.x, s, ic, th)
            IN [i \in 1..Len(ends) |->
                   [ends[i] EXCEPT !.g[node.k] = <<th.p, ends[i].p>>]]

\* pattern.match at position p: None or Some(match object)
MatchAt(pat, ngroups, s, ic, p) ==
    LET ends == Match(pat, s, ic, [p |-> p, g |-> [k \in 1..ngroups |-> NoGroup]])
    IN IF ends = << >> THEN None
       ELSE Some([start |-> p, end |-> Head(ends).p, g |-> Head(ends).g])

\* pattern.search from position from: the leftmost match
ReSearch(pat, ngroups, s, ic, from) ==
    LET Hit(p) == ~IsNone(MatchAt(pat, ngroups, s, ic, p))
    IN IF \E p \in from..(Len(s) + 1) : Hit(p)
       THEN MatchAt(pat, ngroups, s, ic,
                    CHOOSE p \in from..(Len(s) + 1) :
                        Hit(p) /\ \A r \in from..(p - 1) : ~Hit(r))
       ELSE None

\* pattern.finditer: the non-overlapping matches, left to right
RECURSIVE ReFinditerFrom(_, _, _, _, _)
ReFinditerFrom(pat, ngroups, s, ic, from) ==
    LET m == ReSearch(pat, ngroups, s, ic, from)
    IN IF IsNone(m) THEN << >>
       ELSE <<Val(m)>> \o
            ReFinditerFrom(pat, ngroups, s, ic,
                           IF Val(m).end = Val(m).start THEN Val(m).end + 1
                           ELSE Val(m).end)
ReFinditer(pat, ngroups, s, ic) == ReFinditerFrom(pat, ngroups, s, ic, 1)

\* match.group(k)
Group(s, m, k) == Slice(s, m.g[k][1], m.g[k][2])

-----------------------------------------------------------------------------
(* find_key_functions.py: the patterns *)

W == In(WordChars)
S == In(SpaceChars)

\* FUNCTION_PATTERN, lines 65-83 (re.VERBOSE: the pattern's own blanks and
\* comments are not part of it)
FUNCTION_PATTERN ==
    Cat(<<
        Opt(Cat(<<Lit(<<"v","i","r","t","u","a","l">>), Plus(S)>>)),
        Opt(Cat(<<Lit(<<"s","t","a","t","i","c">>), Plus(S)>>)),
        Opt(Cat(<<Lit(<<"i","n","l","i","n","e">>), Plus(S)>>)),
        Grp(1, LazyPlus(In(WordChars \cup SpaceChars
                           \cup {":", "<", ">", ",", "*", "&"}))),
        Plus(S),
        Grp(2, Plus(In(WordChars \cup {"~"}))),
        Star(S),
        Lit(<<"(">>),
        Grp(3, Star(NotIn({")"}))),
        Lit(<<")">>),
        Star(S),
        Opt(Lit(<<"c","o","n","s","t">>)),
        Opt(Cat(<<Star(S), Lit(<<"n","o","e","x","c","e","p","t">>)>>)),
        Opt(Cat(<<Star(S), Lit(<<"o","v","e","r","r","i","d","e">>)>>)),
        Star(S),
        Alt(<<Lit(<<";">>), Lit(<<"=">>), Lit(<<"{">>)>>)
    >>)

\* CLASS_PATTERN, line 86
CLASS_PATTERN ==
    Cat(<<
        Alt(<<Lit(<<"c","l","a","s","s">>), Lit(<<"s","t","r","u","c","t">>)>>),
        Plus(S),
        Grp(1, Plus(W)),
        Star(S),
        Opt(Cat(<<Lit(<<":">>), Star(S), Plus(NotIn({"{"}))>>)),
        Star(S),
        Lit(<<"{">>)
    >>)

-----------------------------------------------------------------------------
(* find_key_functions.py: classify_function *)

\* KEYWORD_PATTERNS, lines 37-62: a dict, iterated in insertion order
KEYWORD_PATTERNS ==
    <<
      [key |-> "protocol",
       keywords |-> <<
           <<"p","a","r","s","e">>,
           <<"d","e","c","o","d","e">>,
           <<"s","e","r","i","a","l","i","z","e">>,
           <<"d","e","s","e","r","i","a","l","i","z","e">>,
           <<"e","n","c","o","d","e">>,
           <<"u","n","p","a","c","k">>,
           <<"p","a","c","k">>>>,
       priority |-> "P0",
       category |-> "protocol"],
      [key |-> "business",
       keywords |-> <<
           <<"h","a","n","d","l","e">>,
           <<"p","r","o","c","e","s","s">>,
           <<"e","x","e","c","u","t","e">>,
           <<"t","r","a","n","s","i","t","i","o","n">>,
           <<"v","a","l","i","d","a","t","e">>>>,
       priority |-> "P1",
       category |-> "business"],
      [key |-> "network",
       keywords |-> <<
           <<"s","e","n","d">>,
           <<"r","e","c","e","i","v","e">>,
           <<"r","e","a","d">>,
           <<"w","r","i","t","e">>,
           <<"c","o","n","n","e","c","t">>,
           <<"a","c","c","e","p","t">>,
           <<"a","s","y","n","c">>>>,
       priority |-> "P2",
       category |-> "network"],
      [key |-> "utility",
       keywords |-> <<
           <<"t","o">>,
           <<"f","r","o","m">>,
           <<"c","o","n","v","e","r","t">>,
           <<"f","o","r","m","a","t">>,
           <<"g","e","t">>,
           <<"s","e","t">>,
           <<"i","s">>,
           <<"h","a","s">>>>,
       priority |-> "P3",
       category |-> "utility"]
    >>

\* the inner loop, lines 94-95: `keyword in name_lower` for some keyword
RECURSIVE AnyKeywordIn(_, _)
AnyKeywordIn(keywords, name_lower) ==
    IF keywords = << >> THEN FALSE
    ELSE IF Contains(name_lower, Head(keywords)) THEN TRUE
    ELSE AnyKeywordIn(Tail(keywords), name_lower)

\* the outer loop, lines 93-98
RECURSIVE ClassifyIn(_, _)
ClassifyIn(configs, name_lower) ==
    IF configs = << >> THEN <<"P3", "utility">>
    ELSE IF AnyKeywordIn(Head(configs).keywords, name_lower)
         THEN <<Head(configs).priority, Head(configs).category>>
         ELSE ClassifyIn(Tail(configs), name_lower)

\* a classify_function that matches the name as written, not lowered
classify_function_cased(n) == ClassifyIn(KEYWORD_PATTERNS, n)

\* classify_function, lines 89-98
classify_function(n) == ClassifyIn(KEYWORD_PATTERNS, Lower(n))

\* The names the classifier is run on: up to MaxNameParts fragments joined.
MaxNameParts == 3
NameFragments ==
    {<<"p","a","r","s","e">>,
     <<"P","a","r","s","e">>,
     <<"h","a","n","d","l","e">>,
     <<"A","n","d">>,
     <<"s","e","n","d">>,
     <<"R","e","q","u","e","s","t">>,
     <<"g","e","t">>,
     <<"V","a","l","u","e">>,
     <<"H","e","a","d","e","r">>,
     <<"r">>}

RECURSIVE Joined(_, _)
Joined(frags, n) ==
    IF n = 0 THEN {<< >>}
    ELSE LET shorter == Joined(frags, n - 1)
         IN shorter \cup {a \o f : a \in shorter, f \in frags}

Names == Joined(NameFragments, MaxNameParts) \ {<< >>}

EIdle ==
    /\ content = None /\ epc = "idle" /\ lines = << >> /\ lineNo = 0
    /\ current_class = None /\ brace_depth = 0
    /\ matches = << >> /\ handed = 0 /\ functions = << >>
AIdle ==
    /\ fs = None /\ apc = "idle" /\ include_dir = None /\ cmake_info = None /\ info = None
    /\ modules = << >> /\ pending = {} /\ visited = << >> /\ sources = << >>
    /\ raised = None

InitClassify ==
    /\ name \in Names
    /\ cpc = "call"
    /\ cresult = None
    /\ EIdle /\ AIdle

Classify ==
    /\ cpc = "call"
    /\ cresult' = Some(classify_function(name))
    /\ cpc' = "returned"
    /\ UNCHANGED <<name, evars, avars>>

NextClassify == Classify

SpecClassify == InitClassify /\ [][NextClassify]_vars

(* C1 *)

Name_parseHeader == <<"p","a","r","s","e","H","e","a","d","e","r">>
Name_sendRequest == <<"s","e","n","d","R","e","q","u","e","s","t">>
Name_getValue == <<"g","e","t","V","a","l","u","e">>
Name_handleAndParse == <<"h","a","n","d","l","e","A","n","d","P","a","r","s","e">>
Name_getParser == <<"g","e","t","P","a","r","s","e","r">>

\* some keyword of the group stored under key occurs in n, letter case ignored
GroupOccursIn(key, n) ==
    \E c \in 1..Len(KEYWORD_PATTERNS) :
        /\ KEYWORD_PATTERNS[c].key = key
        /\ \E k \in 1..Len(KEYWORD_PATTERNS[c].keywords) :
               \E i \in 1..Len(n) : LitAt(n, i, KEYWORD_PATTERNS[c].keywords[k], TRUE)

\* C1: classify_function returns the pair of the first group, in the order
\* protocol (P0), business (P1), network (P2), utility (P3), one of whose
\* keywords occurs in the name as a case-insensitive substring, and
\* (P3, utility) when none does; parseHeader, handleAndParse and getParser
\* are (P0, protocol), sendRequest is (P2, network), getValue is (P3, utility).
C1_FirstGroupWins ==
    cpc = "returned" =>
        /\ Val(cresult) =
              IF GroupOccursIn("protocol", name) THEN <<"P0", "protocol">>
              ELSE IF GroupOccursIn("business", name) THEN <<"P1", "business">>
              ELSE IF GroupOccursIn("network", name) THEN <<"P2", "network">>
              ELSE <<"P3", "utility">>
        /\ name \in {Name_parseHeader, Name_handleAndParse, Name_getParser}
              => Val(cresult) = <<"P0", "protocol">>
        /\ name = Name_sendRequest => Val(cresult) = <<"P2", "network">>
        /\ name = Name_getValue => Val(cresult) = <<"P3", "utility">>

\* handleAndParse holds a business keyword before a protocol keyword and has
\* been classified (P0, protocol)
C1_Witness ==
    /\ cpc = "returned"
    /\ name = Name_handleAndParse
    /\ GroupOccursIn("business", name)
    /\ Val(cresult) = <<"P0", "protocol">>

-----------------------------------------------------------------------------
(* find_key_functions.py: extract_functions *)

\* str.split('\n'): the pieces between the line breaks
Lines(s) ==
    LET breaks == {i \in 1..Len(s) : s[i] = "\n"}
        \* the k-th line break, 0 before the text and Len(s) + 1 after it
        Break(k) == IF k = 0 THEN 0
                    ELSE IF k > Cardinality(breaks) THEN Len(s) + 1
                    ELSE CHOOSE b \in breaks :
                             Cardinality({x \in breaks : x < b}) = k - 1
    IN [k \in 1..(Cardinality(breaks) + 1) |->
           Slice(s, Break(k - 1) + 1, Break(k))]

\* lines 116-126 with the clearing test of line 124 weakened to `< 0`
TrackLine_strict(cc, depth, line) ==
    LET class_match == ReSearch(CLASS_PATTERN, 1, line, FALSE, 1)
        cc1 == IF IsNone(class_match) THEN cc
               ELSE Some(Group(line, Val(class_match), 1))
        d1  == IF IsNone(class_match) THEN depth ELSE 0
        d2  == d1 + Count(line, "{") - Count(line, "}")
    IN IF d2 < 0 THEN <<None, 0>> ELSE <<cc1, d2>>

\* One iteration of the loop of lines 115-126 on `line`:
\* the next <<current_class, brace_depth>>
TrackLine(cc, depth, line) ==
    LET class_match == ReSearch(CLASS_PATTERN, 1, line, FALSE, 1)
        cc1 == IF IsNone(class_match) THEN cc
               ELSE Some(Group(line, Val(class_match), 1))
        d1  == IF IsNone(class_match) THEN depth ELSE 0
        d2  == d1 + Count(line, "{") - Count(line, "}")
    IN IF d2 <= 0 THEN <<None, 0>> ELSE <<cc1, d2>>

Tilde == <<"~">>
OperatorPrefix == <<"o","p","e","r","a","t","o","r">>

\* lines 130-131: return_type and func_name of a signature match
ReturnTypeOf(text, m) == Strip(Group(text, m, 1))
FuncNameOf(text, m) == Strip(Group(text, m, 2))
ParamsOf(text, m) == Strip(Group(text, m, 3))

\* line 135
IsCtorOrDtor(text, m) ==
    \/ StartsWith(FuncNameOf(text, m), Tilde)
    \/ ReturnTypeOf(text, m) = FuncNameOf(text, m)

\* line 139
IsOperator(text, m) == StartsWith(FuncNameOf(text, m), OperatorPrefix)

\* lines 146-149 taking the first type declaration before the match
ParentClass_first(text, search_pos) ==
    LET found == ReFinditer(CLASS_PATTERN, 1, Slice(text, 1, search_pos), FALSE)
    IN IF found = << >> THEN << >>
       ELSE Group(text, found[1], 1)

\* lines 146-149: class_name, the group of the last CLASS_PATTERN match in
\* content[:search_pos], "" when there is none
ParentClass(text, search_pos) ==
    LET found == ReFinditer(CLASS_PATTERN, 1, Slice(text, 1, search_pos), FALSE)
    IN IF found = << >> THEN << >>
       ELSE Group(text, found[Len(found)], 1)

\* file_path.name
FileName == "x.hpp"

\* lines 143-165: the FunctionInfo of a match that is kept
MakeFunctionInfo(text, m) ==
    LET return_type == ReturnTypeOf(text, m)
        func_name   == FuncNameOf(text, m)
        params      == ParamsOf(text, m)
        class_name  == ParentClass(text, m.start)
        cls         == classify_function(func_name)
    IN [name        |-> func_name,
        full_name   |-> IF class_name # << >>
                        THEN class_name \o <<":", ":">> \o func_name
                        ELSE func_name,
        file        |-> FileName,
        line        |-> Count(Slice(text, 1, m.start), "\n") + 1,
        signature   |-> return_type \o <<" ">> \o func_name
                           \o <<"(">> \o params \o <<")">>,
        return_type |-> return_type,
        priority    |-> cls[1],
        category    |-> cls[2]]

\* a loop of lines 129-140 that skips constructors and destructors only
Keeps_operators(text, m) == ~IsCtorOrDtor(text, m)

\* lines 134-140: the match is not skipped by either `continue`
Keeps(text, m) == ~IsCtorOrDtor(text, m) /\ ~IsOperator(text, m)

\* The header texts the extractor is run on: up to MaxFragments fragments
\* joined.  The fragments:
\*   'class Foo { int bar(); };'    the example of spec section 8
\*   'struct A { void f(); };'      first half of the two-struct example
\*   ' struct B { void g(); };'     second half of the two-struct example
\*   '\nint parse();'               a free function on a line of its own
\*   'class Foo {\n'                a type opened and left open
\*   'struct N { };\n'              a type opened and closed on one line
\*   ' Foo();\n ~Foo();\n'          a constructor and a destructor declaration
\*   ' Foo Foo();\n'                return-type text equal to the name
\*   ' int operators();\n'          a name with the prefix operator
\*   'enum class C : int; int q();\n' a type-declaration head with no brace yet, then a function
\*   '};\n'                         a closing brace
MaxFragments == 2
HeaderFragments ==
    {<<"c","l","a","s","s"," ","F","o","o"," ","{"," ","i","n","t"," ","b","a","r","(",")",";"," ","}",";">>,
     <<"s","t","r","u","c","t"," ","A"," ","{"," ","v","o","i","d"," ","f","(",")",";"," ","}",";">>,
     <<" ","s","t","r","u","c","t"," ","B"," ","{"," ","v","o","i","d"," ","g","(",")",";"," ","}",";">>,
     <<"\n","i","n","t"," ","p","a","r","s","e","(",")",";">>,
     <<"c","l","a","s","s"," ","F","o","o"," ","{","\n">>,
     <<"s","t","r","u","c","t"," ","N"," ","{"," ","}",";","\n">>,
     <<" ","F","o","o","(",")",";","\n"," ","~","F","o","o","(",")",";","\n">>,
     <<" ","F","o","o"," ","F","o","o","(",")",";","\n">>,
     <<" ","i","n","t"," ","o","p","e","r","a","t","o","r","s","(",")",";","\n">>,
     <<"e","n","u","m"," ","c","l","a","s","s"," ","C"," ",":"," ","i","n","t",";"," ","i","n","t"," ","q","(",")",";","\n">>,
     <<"}",";","\n">>}

Headers == Joined(HeaderFragments, MaxFragments)

CIdle == name = << >> /\ cpc = "idle" /\ cresult = None

\* the file is readable with some text, or read_text raises
InitExtract ==
    /\ content \in {None} \cup {Some(h) : h \in Headers}
    /\ epc = "read"
    /\ lines = << >> /\ lineNo = 0 /\ current_class = None /\ brace_depth = 0
    /\ matches = << >> /\ handed = 0 /\ functions = << >>
    /\ CIdle /\ AIdle

Text == Val(content)

\* lines 105-108: read_text raised, the empty list is returned
ReadFails ==
    /\ epc = "read" /\ IsNone(content)
    /\ epc' = "done"
    /\ UNCHANGED <<content, lines, lineNo, current_class, brace_depth,
                   matches, handed, functions>>
    /\ UNCHANGED <<cvars, avars>>

\* lines 106, 110-112
ReadOk ==
    /\ epc = "read" /\ ~IsNone(content)
    /\ epc' = "pass1"
    /\ lines' = Lines(Text)
    /\ lineNo' = 0 /\ current_class' = None /\ brace_depth' = 0
    /\ UNCHANGED <<content, matches, handed, functions>>
    /\ UNCHANGED <<cvars, avars>>

\* lines 115-126: one line of the first loop
Pass1Line ==
    /\ epc = "pass1" /\ lineNo < Len(lines)
    /\ LET next == TrackLine(current_class, brace_depth, lines[lineNo + 1])
       IN /\ current_class' = next[1]
          /\ brace_depth' = next[2]
    /\ lineNo' = lineNo + 1
    /\ UNCHANGED <<content, epc, lines, matches, handed, functions>>
    /\ UNCHANGED <<cvars, avars>>

\* the first loop is exhausted; line 129 calls finditer
Pass1End ==
    /\ epc = "pass1" /\ lineNo = Len(lines)
    /\ epc' = "pass2"
    /\ matches' = ReFinditer(FUNCTION_PATTERN, 3, Text, FALSE)
    /\ handed' = 0
    /\ UNCHANGED <<content, lines, lineNo, current_class, brace_depth, functions>>
    /\ UNCHANGED <<cvars, avars>>

\* lines 129-140: the next match is skipped by a `continue`
Pass2Skip ==
    /\ epc = "pass2" /\ handed < Len(matches)
    /\ ~Keeps(Text, matches[handed + 1])
    /\ handed' = handed + 1
    /\ UNCHANGED <<content, epc, lines, lineNo, current_class, brace_depth,
                   matches, functions>>
    /\ UNCHANGED <<cvars, avars>>

\* lines 129-165: the next match is appended
Pass2Emit ==
    /\ epc = "pass2" /\ handed < Len(matches)
    /\ Keeps(Text, matches[handed + 1])
    /\ functions' = Append(functions, MakeFunctionInfo(Text, matches[handed + 1]))
    /\ handed' = handed + 1
    /\ UNCHANGED <<content, epc, lines, lineNo, current_class, brace_depth, matches>>
    /\ UNCHANGED <<cvars, avars>>

\* finditer is exhausted; line 167
Pass2End ==
    /\ epc = "pass2" /\ handed = Len(matches)
    /\ epc' = "done"
    /\ UNCHANGED <<content, lines, lineNo, current_class, brace_depth,
                   matches, handed, functions>>
    /\ UNCHANGED <<cvars, avars>>

NextExtract ==
    \/ ReadFails
    \/ ReadOk
    \/ Pass1Line
    \/ Pass1End
    \/ Pass2Skip
    \/ Pass2Emit
    \/ Pass2End

SpecExtract == InitExtract /\ [][NextExtract]_vars

(* C3, C4, C10 *)

Header_Foo == <<"c","l","a","s","s"," ","F","o","o"," ","{"," ","i","n","t"," ","b","a","r","(",")",";"," ","}",";">>
Header_AB ==
    <<"s","t","r","u","c","t"," ","A"," ","{"," ","v","o","i","d"," ","f","(",")",";"," ","}",";">>
    \o <<" ","s","t","r","u","c","t"," ","B"," ","{"," ","v","o","i","d"," ","g","(",")",";"," ","}",";">>
Header_Nested == <<"c","l","a","s","s"," ","F","o","o"," ","{","\n">> \o <<"s","t","r","u","c","t"," ","N"," ","{"," ","}",";","\n">>
Header_FooThenFree == Header_Foo \o <<"\n","i","n","t"," ","p","a","r","s","e","(",")",";">>

\* the matches the second loop has been handed so far
Handed == SubSeq(matches, 1, handed)

\* the three rejections as the claim words them, on the match's groups
C3_Rejected(m) ==
    LET nm == Group(Text, m, 2)
        rt == Strip(Group(Text, m, 1))
    IN \/ nm[1] = "~"
       \/ rt = nm
       \/ (Len(nm) >= 8 /\ SubSeq(nm, 1, 8) = OperatorPrefix)

C3_Expected == SelectSeq(Handed, LAMBDA m : ~C3_Rejected(m))

NamesOf(infos) == [j \in 1..Len(infos) |-> infos[j].name]

\* C3: no FunctionInfo is emitted for a signature match whose name starts with
\* `~`, whose stripped return-type text equals its name, or whose name starts
\* with `operator`; every other match is emitted exactly once, in match
\* order.  For `class Foo { int bar(); };` no record is named Foo or ~Foo and
\* one is named bar.
C3_FilterExact ==
    epc \in {"pass2", "done"} /\ ~IsNone(content) =>
        /\ Len(functions) = Len(C3_Expected)
        /\ \A j \in 1..Len(functions) :
              /\ functions[j].name = Group(Text, C3_Expected[j], 2)
              /\ functions[j].return_type = Strip(Group(Text, C3_Expected[j], 1))
              /\ functions[j].line =
                    Count(Slice(Text, 1, C3_Expected[j].start), "\n") + 1
        /\ (epc = "done" /\ Text = Header_Foo) =>
              NamesOf(functions) = <<<<"b","a","r">>>>

\* the run is over; a destructor match was skipped and another match emitted
C3_Witness ==
    /\ epc = "done" /\ ~IsNone(content)
    /\ \E i \in 1..Len(matches) : Group(Text, matches[i], 2)[1] = "~"
    /\ \E i \in 1..Len(matches) : ~C3_Rejected(matches[i])
    /\ functions # << >>
    /\ Len(functions) < Len(matches)

\* the type-declaration matches of the whole text
ClassMatches == ReFinditer(CLASS_PATTERN, 1, Text, FALSE)

Qualified(cms, nm) ==
    IF cms = << >> THEN nm
    ELSE Group(Text, cms[Len(cms)], 1) \o <<":", ":">> \o nm

\* C4 as claimed: the enclosing type of an emitted declaration is the last
\* type-declaration match that starts before the declaration match's start.
C4_StartsBefore ==
    epc \in {"pass2", "done"} /\ ~IsNone(content) =>
        LET all == ClassMatches
            decl == C3_Expected
        IN \A j \in 1..Len(functions) :
               functions[j].full_name =
                   Qualified(SelectSeq(all, LAMBDA c : c.start < decl[j].start),
                             functions[j].name)

\* C4 as amended: the enclosing type of an emitted declaration is the last
\* type-declaration match that ends at or before the declaration match's
\* start (a match lying in the text that precedes the declaration), whether
\* or not that type's braces have closed; the qualified name is Type::name
\* when there is one and the bare name otherwise.  In the two-struct header
\* g is B::g, and a free function after a class's closing brace is
\* attributed to that class.
C4_EndsBefore ==
    epc \in {"pass2", "done"} /\ ~IsNone(content) =>
        LET all == ClassMatches
            decl == C3_Expected
        IN /\ \A j \in 1..Len(functions) :
                 functions[j].full_name =
                     Qualified(SelectSeq(all, LAMBDA c : c.end <= decl[j].start),
                               functions[j].name)
           /\ (epc = "done" /\ Text = Header_AB) =>
                 /\ Len(functions) = 2
                 /\ functions[1].full_name = <<"A", ":", ":", "f">>
                 /\ functions[2].full_name = <<"B", ":", ":", "g">>
           /\ (epc = "done" /\ Text = Header_FooThenFree) =>
                 functions[Len(functions)].full_name =
                     <<"F","o","o", ":", ":", "p","a","r","s","e">>

\* the two-struct header has been scanned: g went to B, after A had closed
C4_Witness ==
    /\ epc = "done" /\ ~IsNone(content)
    /\ Text = Header_AB
    /\ Len(functions) = 2
    /\ functions[2].name = <<"g">>
    /\ functions[2].full_name = <<"B", ":", ":", "g">>

\* opening minus closing braces of lines j..k
RECURSIVE NetBraces(_, _)
NetBraces(j, k) ==
    IF k < j THEN 0
    ELSE Count(lines[k], "{") - Count(lines[k], "}") + NetBraces(j, k - 1)

\* the processed lines on which a type declaration is found
ClassLines ==
    {j \in 1..lineNo : ~IsNone(ReSearch(CLASS_PATTERN, 1, lines[j], FALSE, 1))}

Max(T) == CHOOSE x \in T : \A y \in T : y <= x

\* C10: after each line the counter is >= 0 and the name is set only if the
\* counter is > 0.  The name is that of the last line J with a type
\* declaration, and it is set exactly when the braces counted from line J on
\* (line J included, the counter restarting at zero there) have stayed above
\* zero on every line since; then the counter is that count.  So a nested
\* type declaration discards the outer type's context once its own braces
\* balance.
C10_Tracker ==
    epc \in {"pass1", "pass2", "done"} /\ ~IsNone(content) =>
        LET decls == ClassLines
            J == Max(decls)
        IN /\ brace_depth >= 0
           /\ ~IsNone(current_class) => brace_depth > 0
           /\ IF decls # {} /\ \A i \in J..lineNo : NetBraces(J, i) > 0
              THEN /\ current_class =
                        Some(Group(lines[J],
                                   Val(ReSearch(CLASS_PATTERN, 1, lines[J], FALSE, 1)),
                                   1))
                   /\ brace_depth = NetBraces(J, lineNo)
              ELSE current_class = None

\* the outer type Foo is still open, the nested N has just balanced, and the
\* tracker holds no type
C10_Witness ==
    /\ epc = "pass1" /\ ~IsNone(content)
    /\ Text = Header_Nested
    /\ lineNo = 2
    /\ NetBraces(1, 2) > 0
    /\ current_class = None
    /\ brace_depth = 0

-----------------------------------------------------------------------------
(* analyze_project.py: the patterns *)

\* line 66, re.IGNORECASE
PROJECT_RE ==
    Cat(<<Lit(<<"p","r","o","j","e","c","t">>), Star(S), Lit(<<"(">>), Star(S),
          Grp(1, Plus(W))>>)

\* line 71
CXX_STANDARD_RE ==
    Cat(<<Lit(<<"C","M","A","K","E","_","C","X","X","_","S","T","A","N","D","A","R","D">>),
          Plus(S), Grp(1, Plus(In(Digits)))>>)

\* line 76, re.IGNORECASE
TARGET_RE ==
    Cat(<<Lit(<<"a","d","d","_">>),
          Grp(1, Alt(<<Lit(<<"e","x","e","c","u","t","a","b","l","e">>),
                       Lit(<<"l","i","b","r","a","r","y">>)>>)),
          Star(S), Lit(<<"(">>), Star(S), Grp(2, Plus(W))>>)

\* line 83, re.IGNORECASE
FIND_PACKAGE_RE ==
    Cat(<<Lit(<<"f","i","n","d","_","p","a","c","k","a","g","e">>),
          Star(S), Lit(<<"(">>), Star(S), Grp(1, Plus(W))>>)

\* line 114
NAMESPACE_RE ==
    Cat(<<Lit(<<"n","a","m","e","s","p","a","c","e">>), Plus(S),
          Grp(1, Cat(<<Plus(W), Star(Cat(<<Lit(<<":", ":">>), Plus(W)>>))>>)),
          Star(S), Lit(<<"{">>)>>)

-----------------------------------------------------------------------------
(* analyze_project.py: the functions *)

\* dict.get(key, default)
Get(d, key, default) == IF key \in DOMAIN d THEN d[key] ELSE default

\* lines 53-58
EmptyCmakeInfo ==
    [project_name  |-> << >>,
     cpp_standard  |-> << >>,
     targets       |-> << >>,
     find_packages |-> << >>]

\* lines 63-86: parse_cmake on a file that was read
ParseCmakeText(text) ==
    LET project  == ReSearch(PROJECT_RE, 1, text, TRUE, 1)
        standard == ReSearch(CXX_STANDARD_RE, 1, text, FALSE, 1)
        targets  == ReFinditer(TARGET_RE, 2, text, TRUE)
        packages == ReFinditer(FIND_PACKAGE_RE, 1, text, TRUE)
    IN [project_name  |-> IF IsNone(project) THEN << >>
                          ELSE Group(text, Val(project), 1),
        cpp_standard  |-> IF IsNone(standard) THEN << >>
                          ELSE Group(text, Val(standard), 1),
        targets       |-> [i \in 1..Len(targets) |->
                              [type |-> Lower(Group(text, targets[i], 1)),
                               name |-> Group(text, targets[i], 2)]],
        find_packages |-> [i \in 1..Len(packages) |-> Group(text, packages[i], 1)]]

\* str(path): the parts joined by "/"
RECURSIVE PathStr(_)
PathStr(parts) ==
    IF Len(parts) = 1 THEN parts[1]
    ELSE parts[1] \o <<"/">> \o PathStr(Tail(parts))

\* rglob("*" + suffix): the files whose last part ends with suffix
EndsWith(s, suffix) ==
    /\ Len(suffix) <= Len(s)
    /\ SubSeq(s, Len(s) - Len(suffix) + 1, Len(s)) = suffix
Glob(files, suffix) == {f \in files : EndsWith(f.parts[Len(f.parts)], suffix)}

Ext_hpp == <<".","h","p","p">>
SourceExts == <<<<".","c","p","p">>, <<".","c","c">>, <<".","c","x","x">>>>
RootModule == <<"r","o","o","t">>

\* a module key that is always the first path segment
ModuleName_first(parts) == parts[1]

\* lines 99-104: the module key of a relative path
ModuleName(parts) == IF Len(parts) > 1 THEN parts[1] ELSE RootModule

\* lines 23-30: Module(name=...)
NewModule(nm) ==
    [name |-> nm, namespace |-> << >>, headers |-> << >>, sources |-> << >>,
     dependencies |-> << >>]

\* `module_name in modules`, and the place of the key in the dict
HasKey(mods, nm) == \E i \in 1..Len(mods) : mods[i].name = nm
KeyIndex(mods, nm) == CHOOSE i \in 1..Len(mods) : mods[i].name = nm

\* lines 111-118 storing whatever namespace the header declares
NamespaceAfter_overwrite(namespace, header) ==
    IF ~header.readable THEN namespace
    ELSE LET ns_match == ReSearch(NAMESPACE_RE, 1, header.text, FALSE, 1)
         IN IF ~IsNone(ns_match)
            THEN Group(header.text, Val(ns_match), 1)
            ELSE namespace

\* lines 111-118: the module's namespace after the header is looked at;
\* a read_text that raises is caught and changes nothing
NamespaceAfter(namespace, header) ==
    IF ~header.readable THEN namespace
    ELSE LET ns_match == ReSearch(NAMESPACE_RE, 1, header.text, FALSE, 1)
         IN IF ~IsNone(ns_match) /\ namespace = << >>
            THEN Group(header.text, Val(ns_match), 1)
            ELSE namespace

\* lines 97-118: the dict after one header
AfterHeader(mods, header) ==
    LET module_name == ModuleName(header.parts)
        mods1 == IF HasKey(mods, module_name) THEN mods
                 ELSE Append(mods, NewModule(module_name))
        k == KeyIndex(mods1, module_name)
        mods2 == [mods1 EXCEPT ![k].headers = Append(@, PathStr(header.parts))]
    IN [mods2 EXCEPT ![k].namespace = NamespaceAfter(@, header)]

\* line 172 giving the list to the last module
AssociateSources_last(mods, srcs) ==
    IF mods # << >> THEN [mods EXCEPT ![Len(mods)].sources = srcs] ELSE mods

\* lines 171-172: info.modules[0].sources = sources
AssociateSources(mods, srcs) ==
    IF mods # << >> THEN [mods EXCEPT ![1].sources = srcs] ELSE mods

\* the orders in which rglob may yield the files of a set
RECURSIVE Orders(_)
Orders(files) ==
    IF files = {} THEN {<< >>}
    ELSE UNION {{<<f>> \o rest : rest \in Orders(files \ {f})} : f \in files}

\* lines 130-132: the lists scan_sources may build, extension by extension
RECURSIVE SourceLists(_, _)
SourceLists(files, exts) ==
    IF exts = << >> THEN {<< >>}
    ELSE {[i \in 1..Len(first) |-> PathStr(first[i].parts)] \o rest :
             first \in Orders(Glob(files, Head(exts))),
             rest \in SourceLists(files, Tail(exts))}

IncludeDirs == <<"include", "inc", "headers">>
SrcDirs == <<"src", "source", "sources">>

\* lines 156-159, 165-168: the first candidate that exists
FirstExisting(cands, dirs) ==
    IF \E i \in 1..Len(cands) : cands[i] \in dirs
    THEN Some(cands[Min({i \in 1..Len(cands) : cands[i] \in dirs})])
    ELSE None

-----------------------------------------------------------------------------
(* The file systems the analysis is run on *)

RootName == <<"p","r","o","j">>

CMake_Empty ==
    << >>
CMake_Project ==
    <<"p","r","o","j","e","c","t","(","d","e","m","o",")","\n">>
CMake_ProjectUpper ==
    <<"P","R","O","J","E","C","T"," ","("," ","D","e","m","o"," ","C","X","X"," ",")","\n","s","e","t","(","C","M","A","K","E","_","C","X","X","_","S","T","A","N","D","A","R","D"," ","1","7",")","\n">>
CMake_TargetsOnly ==
    <<"a","d","d","_","l","i","b","r","a","r","y","(","c","o","r","e",")","\n","A","D","D","_","E","X","E","C","U","T","A","B","L","E","(","a","p","p"," ","m","a","i","n",".","c","p","p",")","\n","f","i","n","d","_","p","a","c","k","a","g","e","(","B","o","o","s","t",")","\n">>
CMake_Comment ==
    <<"#"," ","n","o","t","h","i","n","g"," ","d","e","c","l","a","r","e","d","\n">>

\* CMakeLists.txt: absent, present but read_text raises, or one of the texts
CMakeFiles ==
    {[exists |-> FALSE, readable |-> FALSE, text |-> << >>],
     [exists |-> TRUE, readable |-> FALSE, text |-> << >>]}
    \cup {[exists |-> TRUE, readable |-> TRUE, text |-> x] :
             x \in {CMake_Empty, CMake_Project, CMake_ProjectUpper,
                    CMake_TargetsOnly, CMake_Comment}}

H_socket ==
    [parts |-> <<<<"n","e","t","i","o">>, <<"s","o","c","k","e","t",".","h","p","p">>>>,
     readable |-> TRUE,
     text |-> <<"n","a","m","e","s","p","a","c","e"," ","n","e","t","i","o"," ","{"," ","n","a","m","e","s","p","a","c","e"," ","d","e","t","a","i","l"," ","{">>]
H_buffer ==
    [parts |-> <<<<"n","e","t","i","o">>, <<"b","u","f","f","e","r",".","h","p","p">>>>,
     readable |-> TRUE,
     text |-> <<"n","a","m","e","s","p","a","c","e"," "," ","n","e","t",":",":","i","o","\n","{">>]
H_impl ==
    [parts |-> <<<<"n","e","t","i","o">>, <<"d","e","t","a","i","l">>, <<"i","m","p","l",".","h","p","p">>>>,
     readable |-> FALSE,
     text |-> << >>]
H_util ==
    [parts |-> <<<<"u","t","i","l",".","h","p","p">>>>,
     readable |-> TRUE,
     text |-> <<"i","n","t"," ","f","(",")",";">>]
H_api ==
    [parts |-> <<<<"c","o","r","e">>, <<"a","p","i",".","h","p","p">>>>,
     readable |-> TRUE,
     text |-> <<"n","a","m","e","s","p","a","c","e"," ","c","o","r","e"," ","{">>]
H_legacy ==
    [parts |-> <<<<"c","o","r","e">>, <<"l","e","g","a","c","y",".","h">>>>,
     readable |-> TRUE,
     text |-> <<"n","a","m","e","s","p","a","c","e"," ","o","l","d"," ","{">>]

HeaderUniverse == {H_socket, H_buffer, H_impl, H_util, H_api, H_legacy}

S_main == [parts |-> <<<<"m","a","i","n",".","c","p","p">>>>]
S_socket == [parts |-> <<<<"n","e","t","i","o">>, <<"s","o","c","k","e","t",".","c","p","p">>>>]
S_util == [parts |-> <<<<"u","t","i","l",".","c","c">>>>]
S_notes == [parts |-> <<<<"n","o","t","e","s",".","t","x","t">>>>]

NoCmake == [exists |-> FALSE, readable |-> FALSE, text |-> << >>]

MakeFs(cmake, dirs, headers, srcs) ==
    [root_name |-> RootName, cmake |-> cmake, dirs |-> dirs,
     headers |-> headers, srcs |-> srcs]

ANotStarted ==
    /\ cmake_info = None /\ info = None /\ modules = << >>
    /\ pending = {} /\ visited = << >> /\ sources = << >> /\ raised = None

-----------------------------------------------------------------------------
(* analyze_project.py: scan_headers *)

UNCHANGED_Others == UNCHANGED <<cvars, evars>>

\* lines 93-94: the directory does not exist
ScanMissing ==
    /\ apc = "scan_call" /\ Val(include_dir) \notin fs.dirs
    /\ modules' = << >>
    /\ apc' = "headers_returned"
    /\ UNCHANGED <<fs, include_dir, cmake_info, info, pending, visited, sources, raised>>
    /\ UNCHANGED_Others

\* lines 91-96: the dict is created and rglob("*.hpp") started
ScanBegin ==
    /\ apc = "scan_call" /\ Val(include_dir) \in fs.dirs
    /\ modules' = << >>
    /\ pending' = Glob(fs.headers, Ext_hpp)
    /\ visited' = << >>
    /\ apc' = "scan"
    /\ UNCHANGED <<fs, include_dir, cmake_info, info, sources, raised>>
    /\ UNCHANGED_Others

\* lines 96-118: rglob yields one more header, in an order of its own
VisitHeader ==
    /\ apc = "scan"
    /\ \E header \in pending :
          /\ modules' = AfterHeader(modules, header)
          /\ pending' = pending \ {header}
          /\ visited' = Append(visited, header)
    /\ UNCHANGED <<fs, apc, include_dir, cmake_info, info, sources, raised>>
    /\ UNCHANGED_Others

\* line 120
ScanReturn ==
    /\ apc = "scan" /\ pending = {}
    /\ apc' = "headers_returned"
    /\ UNCHANGED <<fs, include_dir, cmake_info, info, modules, pending, visited,
                   sources, raised>>
    /\ UNCHANGED_Others

\* The trees scan_headers is run on: up to MaxHeaders files of the universe
\* under include/, or no include/ at all.
MaxHeaders == 3

InitScan ==
    /\ fs \in {MakeFs(NoCmake, {}, {}, {})}
           \cup {MakeFs(NoCmake, {"include"}, hs, {}) :
                    hs \in {x \in SUBSET HeaderUniverse : Cardinality(x) <= MaxHeaders}}
    /\ include_dir = Some("include")
    /\ apc = "scan_call"
    /\ ANotStarted
    /\ CIdle /\ EIdle

NextScan ==
    \/ ScanMissing
    \/ ScanBegin
    \/ VisitHeader
    \/ ScanReturn

SpecScan == InitScan /\ [][NextScan]_vars

-----------------------------------------------------------------------------
(* analyze_project.py: analyze_project *)

\* lines 60-61: no CMakeLists.txt
ParseCmakeAbsent ==
    /\ apc = "start" /\ ~fs.cmake.exists
    /\ cmake_info' = Some(EmptyCmakeInfo)
    /\ apc' = "parsed"
    /\ UNCHANGED <<fs, include_dir, info, modules, pending, visited, sources, raised>>
    /\ UNCHANGED_Others

\* line 63: read_text raises; nothing in parse_cmake, analyze_project or main
\* catches it
ParseCmakeRaises ==
    /\ apc = "start" /\ fs.cmake.exists /\ ~fs.cmake.readable
    /\ raised' = Some("OSError")
    /\ apc' = "raised"
    /\ UNCHANGED <<fs, include_dir, cmake_info, info, modules, pending, visited, sources>>
    /\ UNCHANGED_Others

\* lines 63-86
ParseCmakeRead ==
    /\ apc = "start" /\ fs.cmake.exists /\ fs.cmake.readable
    /\ cmake_info' = Some(ParseCmakeText(fs.cmake.text))
    /\ apc' = "parsed"
    /\ UNCHANGED <<fs, include_dir, info, modules, pending, visited, sources, raised>>
    /\ UNCHANGED_Others

\* lines 140-153
FillInfo ==
    /\ apc = "parsed"
    /\ LET ci == Val(cmake_info)
           targets == Get(ci, "targets", << >>)
       IN info' = Some(
              [name          |-> Get(ci, "project_name", fs.root_name),
               cpp_standard  |-> Get(ci, "cpp_standard", << >>),
               build_targets |-> [i \in 1..Len(targets) |->
                                     [name |-> targets[i].name,
                                      type |-> targets[i].type,
                                      sources |-> << >>]],
               modules       |-> << >>,
               external_deps |-> Get(ci, "find_packages", << >>)])
    /\ apc' = "headers"
    /\ UNCHANGED <<fs, include_dir, cmake_info, modules, pending, visited, sources, raised>>
    /\ UNCHANGED_Others

\* lines 156-160: the first candidate that exists is scanned
FindHeaders ==
    /\ apc = "headers" /\ ~IsNone(FirstExisting(IncludeDirs, fs.dirs))
    /\ include_dir' = FirstExisting(IncludeDirs, fs.dirs)
    /\ apc' = "scan_call"
    /\ UNCHANGED <<fs, cmake_info, info, modules, pending, visited, sources, raised>>
    /\ UNCHANGED_Others

\* lines 156-159: no candidate exists
NoHeadersRoot ==
    /\ apc = "headers" /\ IsNone(FirstExisting(IncludeDirs, fs.dirs))
    /\ apc' = "sources"
    /\ UNCHANGED <<fs, include_dir, cmake_info, info, modules, pending, visited,
                   sources, raised>>
    /\ UNCHANGED_Others

\* lines 161-162: info.modules.extend(modules.values())
ExtendModules ==
    /\ apc = "headers_returned"
    /\ info' = Some([Val(info) EXCEPT !.modules = @ \o modules])
    /\ apc' = "sources"
    /\ UNCHANGED <<fs, include_dir, cmake_info, modules, pending, visited, sources, raised>>
    /\ UNCHANGED_Others

\* lines 165-173 with scan_sources, lines 123-134: the first candidate that
\* exists is scanned and its list given to the first module
ScanSources ==
    /\ apc = "sources" /\ ~IsNone(FirstExisting(SrcDirs, fs.dirs))
    /\ \E list \in SourceLists(fs.srcs, SourceExts) :
          /\ sources' = list
          /\ info' = Some([Val(info) EXCEPT !.modules = AssociateSources(@, list)])
    /\ apc' = "done"
    /\ UNCHANGED <<fs, include_dir, cmake_info, modules, pending, visited, raised>>
    /\ UNCHANGED_Others

\* lines 165-168, 175: no candidate exists
NoSourcesRoot ==
    /\ apc = "sources" /\ IsNone(FirstExisting(SrcDirs, fs.dirs))
    /\ apc' = "done"
    /\ UNCHANGED <<fs, include_dir, cmake_info, info, modules, pending, visited,
                   sources, raised>>
    /\ UNCHANGED_Others

AnalyzeHeaderTrees ==
    {{}, {H_socket, H_buffer, H_util}, {H_socket, H_api, H_legacy}}
AnalyzeSourceTrees == {{}, {S_main, S_socket, S_util, S_notes}}

HasAny(cands, dirs) == ~IsNone(FirstExisting(cands, dirs))

\* a project root with any CMakeLists.txt, any of the six candidate
\* directories, and trees under those that exist
InitAnalyze ==
    /\ fs \in {MakeFs(c, d, hs, ss) :
                  c \in CMakeFiles,
                  d \in SUBSET {"include", "inc", "headers", "src", "source", "sources"},
                  hs \in AnalyzeHeaderTrees,
                  ss \in AnalyzeSourceTrees}
    /\ HasAny(IncludeDirs, fs.dirs) \/ fs.headers = {}
    /\ HasAny(SrcDirs, fs.dirs) \/ fs.srcs = {}
    /\ include_dir = None
    /\ apc = "start"
    /\ ANotStarted
    /\ CIdle /\ EIdle

\* scan_headers is entered only with a directory that line 159 found to
\* exist, so its lines 93-94 are not reached from here
NextAnalyze ==
    \/ ParseCmakeAbsent
    \/ ParseCmakeRaises
    \/ ParseCmakeRead
    \/ FillInfo
    \/ FindHeaders
    \/ NoHeadersRoot
    \/ ScanBegin
    \/ VisitHeader
    \/ ScanReturn
    \/ ExtendModules
    \/ ScanSources
    \/ NoSourcesRoot

SpecAnalyze == InitAnalyze /\ [][NextAnalyze]_vars

(* C5, C6 *)

\* the key the claim gives a header: the first segment of its relative path,
\* or `root` for a header directly under the headers root
C5_Key(header) ==
    IF Len(header.parts) = 1 THEN <<"r","o","o","t">> ELSE Head(header.parts)

Occurrences(seq, x) == Cardinality({i \in 1..Len(seq) : seq[i] = x})

\* C5: whatever headers scan_headers has visited, the map holds exactly one
\* Module per distinct key of a visited header, and every visited header's
\* relative path is exactly once in the headers of the module with its key
\* and in no other module; two headers under netio/ give one Module netio
\* with two header entries.
C5_OneModulePerKey ==
    apc \in {"scan", "headers_returned"} =>
        /\ \A i, j \in 1..Len(modules) :
              modules[i].name = modules[j].name => i = j
        /\ {modules[i].name : i \in 1..Len(modules)}
              = {C5_Key(visited[v]) : v \in 1..Len(visited)}
        /\ \A v \in 1..Len(visited) : \A i \in 1..Len(modules) :
              Occurrences(modules[i].headers, PathStr(visited[v].parts))
                 = IF modules[i].name = C5_Key(visited[v]) THEN 1 ELSE 0
        /\ \A i \in 1..Len(modules) :
              Len(modules[i].headers)
                 = Cardinality({v \in 1..Len(visited) :
                                   C5_Key(visited[v]) = modules[i].name})

\* both headers under netio/ and the one at the root were visited: two
\* modules, netio with two entries and root with one
C5_Witness ==
    /\ apc = "headers_returned"
    /\ {visited[v] : v \in 1..Len(visited)} = {H_socket, H_buffer, H_util}
    /\ Len(modules) = 2
    /\ \E i \in 1..Len(modules) :
          /\ modules[i].name = <<"n","e","t","i","o">>
          /\ Len(modules[i].headers) = 2
    /\ \E i \in 1..Len(modules) :
          /\ modules[i].name = <<"r","o","o","t">>
          /\ modules[i].headers = <<<<"u","t","i","l",".","h","p","p">>>>

\* the first namespace match of a header, None when it cannot be read or
\* declares none
C6_Declares(header) ==
    IF header.readable
    THEN ReSearch(NAMESPACE_RE, 1, header.text, FALSE, 1)
    ELSE None

\* the visits, in order, of headers of module nm that declare a namespace
C6_Declaring(nm) ==
    {v \in 1..Len(visited) :
        C5_Key(visited[v]) = nm /\ ~IsNone(C6_Declares(visited[v]))}

\* C6: at every point of a header scan, a module's namespace is empty while
\* no visited header of the module declares one, and otherwise is the first
\* namespace match of the first visited header of the module that declares
\* one, whatever later headers of the module declare: it is written once.
C6_NamespaceOnce ==
    apc \in {"scan", "headers_returned"} =>
        \A i \in 1..Len(modules) :
            LET declaring == C6_Declaring(modules[i].name)
                first == visited[Min(declaring)]
            IN modules[i].namespace =
                  IF declaring = {} THEN << >>
                  ELSE Group(first.text, Val(C6_Declares(first)), 1)

\* socket.hpp (namespace netio) was visited before buffer.hpp (namespace
\* net::io): the module kept netio
C6_Witness ==
    /\ apc = "headers_returned"
    /\ Len(visited) >= 2
    /\ visited[1] = H_socket
    /\ H_buffer \in {visited[v] : v \in 1..Len(visited)}
    /\ Group(H_buffer.text, Val(C6_Declares(H_buffer)), 1) = <<"n","e","t",":",":","i","o">>
    /\ \E i \in 1..Len(modules) :
          /\ modules[i].name = <<"n","e","t","i","o">>
          /\ modules[i].namespace = <<"n","e","t","i","o">>

(* C2, C7, C8, C9 *)

Finished == apc \in {"done", "raised"}

\* C2 as claimed: when CMakeLists.txt is absent or holds no project
\* declaration, the ProjectInfo's name is the root directory's name (and with
\* no file its targets and external dependencies are empty); with a project
\* declaration the name is the declared one.
C2_NameFallsBack ==
    apc = "done" =>
        LET declared == IF fs.cmake.exists
                        THEN ReSearch(PROJECT_RE, 1, fs.cmake.text, TRUE, 1)
                        ELSE None
        IN /\ IsNone(declared) => Val(info).name = fs.root_name
           /\ ~IsNone(declared) =>
                 Val(info).name = Group(fs.cmake.text, Val(declared), 1)
           /\ ~fs.cmake.exists =>
                 /\ Val(info).build_targets = << >>
                 /\ Val(info).external_deps = << >>

\* C7 as claimed: parse_cmake never raises; with CMakeLists.txt absent, or
\* present but unreadable, it returns the all-empty result.
C7_NeverRaises ==
    /\ raised = None
    /\ (apc # "start" /\ ~(fs.cmake.exists /\ fs.cmake.readable)) =>
          cmake_info = Some(EmptyCmakeInfo)

\* the sources root was found and some module discovered
C8_Applies ==
    /\ apc = "done"
    /\ ~IsNone(FirstExisting(SrcDirs, fs.dirs))
    /\ visited # << >>

\* C8: when a sources root is found and a module was discovered, the whole
\* flat source list is the sources of the first discovered module, the one
\* keyed by the first header visited, and the sources of every other module
\* are empty, wherever the source files sit.
C8_FirstModuleGetsAll ==
    C8_Applies =>
        LET mods == Val(info).modules
        IN /\ mods # << >>
           /\ mods[1].name = C5_Key(visited[1])
           /\ mods[1].sources = sources
           /\ {sources[i] : i \in 1..Len(sources)}
                 = {PathStr(f.parts) :
                       f \in {g \in fs.srcs :
                                 \E e \in 1..Len(SourceExts) :
                                     EndsWith(g.parts[Len(g.parts)], SourceExts[e])}}
           /\ \A i \in 2..Len(mods) : mods[i].sources = << >>

\* two modules were discovered, core first; netio/socket.cpp is among the
\* sources and all of them went to core
C8_Witness ==
    /\ C8_Applies
    /\ Len(Val(info).modules) = 2
    /\ Val(info).modules[1].name = <<"c","o","r","e">>
    /\ Val(info).modules[2].name = <<"n","e","t","i","o">>
    /\ Len(Val(info).modules[1].sources) = 3
    /\ \E i \in 1..3 : Val(info).modules[1].sources[i] = <<"n","e","t","i","o","/","s","o","c","k","e","t",".","c","p","p">>
    /\ Val(info).modules[2].sources = << >>

NoCandidateDir ==
    /\ IsNone(FirstExisting(IncludeDirs, fs.dirs))
    /\ IsNone(FirstExisting(SrcDirs, fs.dirs))

\* C9 as claimed: with none of include, inc, headers and none of src, source,
\* sources present, analyze_project raises nothing and returns a ProjectInfo
\* with no modules and no source paths.
C9_EmptyWithoutRoots ==
    (Finished /\ NoCandidateDir) =>
        /\ raised = None
        /\ apc = "done"
        /\ Val(info).modules = << >>
        /\ sources = << >>


====
